---- MODULE Spec2Model ----
(***************************************************************************)
(* DeenHabit: the offline-first synchronisation of the habit document.    *)
(*                                                                         *)
(*   SpecMerge  the merge engine, mergeAppData (supabase.ts), applied to   *)
(*              two documents that were each built by the edit handlers    *)
(*              of App.tsx on a device of their own.                       *)
(*   Spec       the sync orchestrator of App.tsx: the session effect       *)
(*              (pull, merge, push), the debounced push, the manual push,  *)
(*              the edit handlers and sign-out.                            *)
(***************************************************************************)
EXTENDS Integers, FiniteSets, Sequences, TLC

VARIABLES
    \* ---- SpecMerge: one call of mergeAppData -------------------------
    local,        \* the object passed as `local`
    remote,       \* the object passed as `remote`
    args,         \* the contents of both arguments when the call was made
    result,       \* what the call produced
    mpc,          \* "build" until the call, "merged" after it
    edits,        \* number of edits made while building the two documents
    \* ---- Spec: the orchestrator ---------------------------------------
    user,         \* useState<User | null>
    appData,      \* useState<AppData>
    storage,      \* localStorage[STORAGE_KEY]
    cloud,        \* the habit_data row of the account
    syncStatus,   \* useState<"idle" | "syncing" | "synced" | "error">
    syncTimeout,  \* syncTimeoutRef.current and the closure it will run
    login,        \* the async function started by the session effect
    pushes,       \* pushToCloud calls of the debounced and manual pushes in flight
    signingOut,   \* handleSignOut is awaiting signOut()
    configured,   \* isSupabaseConfigured: the supabase client is not null
    steps,        \* number of user events so far
    \* ---- SpecApp: the profile and the page load --------------------------
    profile,        \* useState<UserProfile>
    profileStorage, \* the profile loadProfile() reads from localStorage[PROFILE_KEY]
    cloudProfile,   \* the profiles row of the account
    boot            \* the page load: what was under STORAGE_KEY, what loadData made of it

mvars == <<local, remote, args, result, mpc, edits>>
pvars == <<profile, profileStorage, cloudProfile, boot>>
ovars == <<user, appData, storage, cloud, syncStatus, syncTimeout, login, pushes, signingOut,
           configured, steps, profile, profileStorage, cloudProfile, boot>>
vars  == <<local, remote, args, result, mpc, edits,
           user, appData, storage, cloud, syncStatus, syncTimeout, login, pushes, signingOut,
           configured, steps, profile, profileStorage, cloudProfile, boot>>

----------------------------------------------------------------------------
\* Bounds of the model

MaxEdits == 3     \* edits that build the two documents handed to the merge
MaxGoal  == 2     \* largest number typed into a goal input
MaxSteps == 3     \* user events (edits, sign-in, sign-out, "Sync now") in a run
MaxPushes == 1    \* debounced and manual pushes in flight at once

\* Program constants
DefaultQuranGoal   == 1
DefaultDhikrTarget == 33

Dates   == {"2024-03-01", "2024-03-02"}
PRAYERS == {"fajr", "dhuhr", "asr", "maghrib", "isha"}

\* The prayer field the edits toggle. The sunnah field is in every record, and
\* like quranPages it is read by no synchronisation code; quranPages stands for
\* the edits of such fields.
ToggledFields == {"fard"}

Max(a, b) == IF a >= b THEN a ELSE b

----------------------------------------------------------------------------
\* Documents (types.ts, App.tsx)

\* A DayData. Of the fields no synchronisation code reads (mode, sadaqah,
\* fasting, the dhikr counters, duaChecklist, ...) the model keeps quranPages
\* and the day's quranGoal.
emptyDay(date, quranGoal) ==
    [date          |-> date,
     prayers       |-> [p \in PRAYERS |-> [fard |-> FALSE, sunnah |-> FALSE]],
     quranPages    |-> 0,
     quranGoal     |-> quranGoal,
     morningAdhkar |-> FALSE,
     eveningAdhkar |-> FALSE]

\* days: {}
NoDays == [d \in {} |-> d]

\* The document loadData falls back to.
DefaultData == [days |-> NoDays, quranGoal |-> DefaultQuranGoal, dhikrTarget |-> DefaultDhikrTarget]

\* const dayData = appData.days[today] || emptyDay(today, mode, appData.quranGoal)
dayDataOf(data, today) ==
    IF today \in DOMAIN data.days THEN data.days[today]
    ELSE emptyDay(today, data.quranGoal)

\* { ...dayData, ...patch }
Spread(base, patch) ==
    [f \in DOMAIN base \cup DOMAIN patch |->
        IF f \in DOMAIN patch THEN patch[f] ELSE base[f]]

\* updateDay(patch): days[today] = { ...dayData, ...patch }
updateDay(data, today, patch) ==
    [data EXCEPT !.days =
        [d \in DOMAIN data.days \cup {today} |->
            IF d = today THEN Spread(dayDataOf(data, today), patch)
            ELSE data.days[d]]]

\* togglePrayer(id, field)
togglePrayer(data, today, id, field) ==
    LET dayData == dayDataOf(data, today)
        p == IF id \in DOMAIN dayData.prayers THEN dayData.prayers[id]
             ELSE [fard |-> FALSE, sunnah |-> FALSE]
    IN updateDay(data, today,
           [prayers |-> [q \in DOMAIN dayData.prayers \cup {id} |->
                            IF q = id THEN [p EXCEPT ![field] = ~p[field]]
                            ELSE dayData.prayers[q]]])

\* The Check of an adhkar flag: updateDay({ [flag]: v })
setAdhkar(data, today, flag, v) ==
    IF flag = "morningAdhkar" THEN updateDay(data, today, [morningAdhkar |-> v])
    ELSE updateDay(data, today, [eveningAdhkar |-> v])

\* The + and - buttons of "Pages read today"
changePages(data, today, delta) ==
    updateDay(data, today,
        [quranPages |-> Max(0, dayDataOf(data, today).quranPages + delta)])

\* The "Daily goal" input of the Today tab
setQuranGoal(data, today, typed) ==
    LET g == Max(1, typed)
    IN updateDay([data EXCEPT !.quranGoal = g], today, [quranGoal |-> g])

\* The "Daily target per dhikr" input of the Dhikr tab
setDhikrTarget(data, typed) == [data EXCEPT !.dhikrTarget = Max(1, typed)]

\* Every document one edit handler can make of `data` on day `today`.
\* togglePrayer reads dayData.prayers[id] first: on a day without a prayers
\* map it raises before it updates anything.
EditsOf(data, today) ==
    {togglePrayer(data, today, id, field) :
        id \in (IF "prayers" \in DOMAIN dayDataOf(data, today) THEN PRAYERS ELSE {}),
        field \in ToggledFields}
    \cup {setAdhkar(data, today, flag, v) :
            flag \in {"morningAdhkar", "eveningAdhkar"}, v \in BOOLEAN}
    \cup {changePages(data, today, delta) : delta \in {-1, 1}}
    \cup {setQuranGoal(data, today, typed) : typed \in 0..MaxGoal}
    \cup {setDhikrTarget(data, typed) : typed \in 0..MaxGoal}

\* A day record as another writer of the account's row may have left it:
\* the payload column is free-form JSON and is cast to AppData unchecked.
NoPrayers(day) == [f \in DOMAIN day \ {"prayers"} |-> day[f]]

----------------------------------------------------------------------------
\* mergeAppData (supabase.ts)
\*
\* The call works on three objects: local.days, remote.days and the object
\* bound to mergedDays. `heap` holds the entries of each, and a reference is
\* the name of one of them, so that a write through mergedDays lands in the
\* object mergedDays is bound to.

\* Object.values(day.prayers) raises when day.prayers is undefined.
ScoreRaises(day) == "prayers" \notin DOMAIN day


\* As fardCount, without the filter on p.fard.
fardCountUnfiltered(day) == Cardinality(DOMAIN day.prayers)

\* Object.values(day.prayers).filter((p) => p.fard).length
fardCount(day) == Cardinality({p \in DOMAIN day.prayers : day.prayers[p].fard})

\* (day.morningAdhkar ? 1 : 0) + (day.eveningAdhkar ? 1 : 0)
adhkarCount(day) ==
    (IF day.morningAdhkar THEN 1 ELSE 0) + (IF day.eveningAdhkar THEN 1 ELSE 0)

\* As completionScore, without the adhkar flags.
completionScorePrayersOnly(day) == fardCount(day)

\* localScore, remoteScore
completionScore(day) == fardCount(day) + adhkarCount(day)


\* As pickDay, with > for >=.
pickDayStrict(localDay, remoteDay) ==
    IF completionScore(localDay) > completionScore(remoteDay) THEN localDay
    ELSE remoteDay

\* As pickDay, with the local day kept whatever the scores.
pickDayLocal(localDay, remoteDay) == localDay

\* As pickDay, with the adhkar flags of both days put together.
pickDayMixed(localDay, remoteDay) ==
    [(IF completionScore(localDay) >= completionScore(remoteDay)
      THEN localDay ELSE remoteDay)
        EXCEPT !.morningAdhkar = localDay.morningAdhkar \/ remoteDay.morningAdhkar,
               !.eveningAdhkar = localDay.eveningAdhkar \/ remoteDay.eveningAdhkar]

\* localScore >= remoteScore ? localDay : remoteDay
pickDay(localDay, remoteDay) ==
    IF completionScore(localDay) >= completionScore(remoteDay) THEN localDay
    ELSE remoteDay


\* As spreadDays, for const mergedDays = {}.
spreadNothing(heap, src) == [ref |-> "new", heap |-> heap]

\* As spreadDays, for const mergedDays = remote.days.
aliasDays(heap, src) == [ref |-> src, heap |-> heap]

\* const mergedDays = { ...remote.days }
spreadDays(heap, src) == [ref |-> "new", heap |-> [heap EXCEPT !.new = heap[src]]]


\* As assignDay, with the write left out.
assignNothing(heap, ref, date, day) == heap

\* mergedDays[date] = day
assignDay(heap, ref, date, day) ==
    [heap EXCEPT ![ref] =
        [d \in DOMAIN heap[ref] \cup {date} |-> IF d = date THEN day ELSE heap[ref][d]]]

\* for (const [date, localDay] of Object.entries(local.days)) { ... }
\* `todo` are the entries not yet visited. The loop ends early, with
\* raised = TRUE, when a score cannot be computed.
RECURSIVE forEachLocalDay(_, _, _)
forEachLocalDay(todo, ref, heap) ==
    IF todo = {} THEN [raised |-> FALSE, heap |-> heap]
    ELSE LET date     == CHOOSE d \in todo : TRUE
             localDay == heap.local[date]
         IN IF date \notin DOMAIN heap.remote
            THEN forEachLocalDay(todo \ {date}, ref, assignDay(heap, ref, date, localDay))
            ELSE LET remoteDay == heap.remote[date]
                 IN IF ScoreRaises(localDay) \/ ScoreRaises(remoteDay)
                    THEN [raised |-> TRUE, heap |-> heap]
                    ELSE forEachLocalDay(todo \ {date}, ref,
                             assignDay(heap, ref, date, pickDay(localDay, remoteDay)))


\* As mergedDocument, with the goals of remote.
mergedDocumentRemoteGoals(mergedDays, l, r) ==
    [days |-> mergedDays, quranGoal |-> r.quranGoal, dhikrTarget |-> r.dhikrTarget]

\* return { days: mergedDays, quranGoal: local.quranGoal, dhikrTarget: local.dhikrTarget }
mergedDocument(mergedDays, l, r) ==
    [days |-> mergedDays, quranGoal |-> l.quranGoal, dhikrTarget |-> l.dhikrTarget]

\* One call mergeAppData(l, r): whether it raised a TypeError, the document
\* it returns otherwise, the object that document's days field is, and the
\* two arguments as the call leaves them.
mergeCall(l, r) ==
    LET m   == spreadDays([local |-> l.days, remote |-> r.days, new |-> NoDays], "remote")
        out == forEachLocalDay(DOMAIN l.days, m.ref, m.heap)
    IN [raised  |-> out.raised,
        ret     |-> IF out.raised THEN DefaultData
                    ELSE mergedDocument(out.heap[m.ref], l, r),
        daysObj |-> m.ref,
        local   |-> [l EXCEPT !.days = out.heap.local],
        remote  |-> [r EXCEPT !.days = out.heap.remote]]

mergeRaises(l, r) == mergeCall(l, r).raised
mergeAppData(l, r) == mergeCall(l, r).ret

----------------------------------------------------------------------------
\* SpecMerge: two devices build a document each, then one merges the other's

NoCall == [raised |-> FALSE, ret |-> DefaultData, daysObj |-> "none"]

\* user === null
NoUser == "null"

\* The fields of UserProfile that are modelled: one of the text fields and
\* the two copies of the goals.
DEFAULT_PROFILE ==
    [displayName |-> "", quranGoal |-> DefaultQuranGoal, dhikrTarget |-> DefaultDhikrTarget]

\* The account has no row in profiles
NoProfileRow == [present |-> FALSE, profile |-> DEFAULT_PROFILE]

\* What localStorage.getItem(STORAGE_KEY) can return: null, or a text that is
\* not JSON, or the text JSON.stringify made of a document.
NoItem == [kind |-> "null", value |-> DefaultData]
GarbageItem == [kind |-> "garbage", value |-> DefaultData]

\* JSON.stringify(data): a text that JSON.parse turns back into `data`
JSONstringify(data) == [kind |-> "json", value |-> data]

\* JSON.parse(raw): raises on a text that is not JSON
JSONparse(raw) == [raised |-> raw.kind # "json", ret |-> raw.value]

\* saveData(data): localStorage.setItem(STORAGE_KEY, JSON.stringify(data))
saveData(data) == JSONstringify(data)

\* As loadDataFrom, without the try / catch.
loadDataFromUncaught(item) ==
    IF item.kind = "null" THEN [raised |-> FALSE, ret |-> DefaultData]
    ELSE JSONparse(item)

\* loadData() when `item` is under STORAGE_KEY: if (raw) return JSON.parse(raw)
\* inside try, catch {}, then the default document.
loadDataFrom(item) ==
    IF item.kind = "null" THEN [raised |-> FALSE, ret |-> DefaultData]
    ELSE IF JSONparse(item).raised THEN [raised |-> FALSE, ret |-> DefaultData]
    ELSE [raised |-> FALSE, ret |-> JSONparse(item).ret]

\* The page load number `n`, with `item` under STORAGE_KEY:
\* useState<AppData>(loadData)
pageLoad(n, item) == [count |-> n, item |-> item, loaded |-> loadDataFrom(item)]

\* No row of the account in habit_data
NoRow == [present |-> FALSE, payload |-> DefaultData]

\* No timer pending. `pending` and `data` are the timer syncTimeoutRef.current
\* names and the appData of its closure; `strays` are the closures of timers
\* still pending that the ref no longer names. `burst` counts the runs of the
\* debounce effect since a timer last fired.
NoTimer == [pending |-> FALSE, data |-> DefaultData, strays |-> {}, burst |-> 0]

\* The session effect's async function is not running. `data` is the appData
\* of the effect's closure and `stored` the document under STORAGE_KEY when
\* the effect ran; `pullFailed` tells that pullFromCloud returned null for a
\* failed request.
NoLogin ==
    [pc |-> "none", data |-> DefaultData, stored |-> DefaultData, pulled |-> FALSE,
     pullFailed |-> FALSE, gotRemote |-> FALSE, merged |-> DefaultData,
     saved |-> FALSE, payload |-> DefaultData]

\* App as it is mounted on a device that has never been used
OInit ==
    /\ user = NoUser
    /\ appData = DefaultData
    /\ storage = DefaultData
    /\ cloud = NoRow
    /\ syncStatus = "idle"
    /\ syncTimeout = NoTimer
    /\ login = NoLogin
    /\ pushes = {}
    /\ signingOut = FALSE
    /\ configured = TRUE
    /\ steps = 0
    /\ profile = DEFAULT_PROFILE
    /\ profileStorage = DEFAULT_PROFILE
    /\ cloudProfile = NoProfileRow
    /\ boot = pageLoad(0, saveData(DefaultData))

MInit ==
    /\ local = DefaultData
    /\ remote = DefaultData
    /\ args = [local |-> DefaultData, remote |-> DefaultData]
    /\ result = NoCall
    /\ mpc = "build"
    /\ edits = 0

\* This device edits its document on day `today`.
EditLocal ==
    /\ mpc = "build" /\ edits < MaxEdits
    /\ \E today \in Dates : \E d \in EditsOf(local, today) : local' = d
    /\ edits' = edits + 1
    /\ UNCHANGED <<remote, args, result, mpc>>
    /\ UNCHANGED ovars

\* Another device edits its document, which its push leaves in the cloud.
EditRemote ==
    /\ mpc = "build" /\ edits < MaxEdits
    /\ \E today \in Dates : \E d \in EditsOf(remote, today) : remote' = d
    /\ edits' = edits + 1
    /\ UNCHANGED <<local, args, result, mpc>>
    /\ UNCHANGED ovars

\* The cloud row holds a day record without a prayers map.
RemoteLosesPrayers ==
    /\ mpc = "build" /\ edits < MaxEdits
    /\ \E date \in DOMAIN remote.days :
          /\ ~ScoreRaises(remote.days[date])
          /\ remote' = [remote EXCEPT !.days[date] = NoPrayers(@)]
    /\ edits' = edits + 1
    /\ UNCHANGED <<local, args, result, mpc>>
    /\ UNCHANGED ovars

\* const merged = mergeAppData(local, remote)
Merge ==
    /\ mpc = "build"
    /\ LET call == mergeCall(local, remote)
       IN /\ args' = [local |-> local, remote |-> remote]
          /\ result' = [raised |-> call.raised, ret |-> call.ret, daysObj |-> call.daysObj]
          /\ local' = call.local
          /\ remote' = call.remote
    /\ mpc' = "merged"
    /\ UNCHANGED edits
    /\ UNCHANGED ovars

MNext == EditLocal \/ EditRemote \/ RemoteLosesPrayers \/ Merge

InitMerge == MInit /\ OInit

SpecMerge == InitMerge /\ [][MNext]_vars

----------------------------------------------------------------------------
\* Properties of mergeAppData, under SpecMerge

Called   == mpc = "merged"
Returned == Called /\ ~result.raised

WellFormed(doc) == \A d \in DOMAIN doc.days : ~ScoreRaises(doc.days[d])

LocalDates  == DOMAIN args.local.days
RemoteDates == DOMAIN args.remote.days
SharedDates == LocalDates \cap RemoteDates

\* The completion score as the claims define it: the prayers with fard = true,
\* plus 1 for morningAdhkar, plus 1 for eveningAdhkar.
PrayersDone(day) == Cardinality({p \in PRAYERS : day.prayers[p].fard})
AdhkarDone(day)  == Cardinality({f \in {"morningAdhkar", "eveningAdhkar"} : day[f]})
Score(day)       == PrayersDone(day) + AdhkarDone(day)

\* days[d] of the returned document is exactly `day`
MergedIs(d, day) == d \in DOMAIN result.ret.days /\ result.ret.days[d] = day

\* C1: for two well-formed documents the call returns a document, whose days
\* have exactly the dates of local.days and of remote.days together.
C1_MergeTotal ==
    (Called /\ WellFormed(args.local) /\ WellFormed(args.remote)) =>
        /\ ~result.raised
        /\ DOMAIN result.ret.days = LocalDates \cup RemoteDates

C1_Witness ==
    /\ Called /\ WellFormed(args.local) /\ WellFormed(args.remote)
    /\ LocalDates \ RemoteDates # {}
    /\ RemoteDates \ LocalDates # {}

\* C2: a date that only one of the two documents has keeps that document's
\* record unchanged, in every call that returns (C1: every call on well-formed
\* documents).
C2_OneSidedDayKept ==
    Returned =>
        /\ \A d \in LocalDates \ RemoteDates : MergedIs(d, args.local.days[d])
        /\ \A d \in RemoteDates \ LocalDates : MergedIs(d, args.remote.days[d])

C2_Witness ==
    /\ Returned
    /\ \E d \in LocalDates \ RemoteDates : args.local.days[d] # emptyDay(d, DefaultQuranGoal)
    /\ \E d \in RemoteDates \ LocalDates : args.remote.days[d] # emptyDay(d, DefaultQuranGoal)

\* C3: on a date both documents have, with equal completion scores, the local
\* record is kept, also when the two records differ.
C3_TieKeepsLocal ==
    Returned =>
        \A d \in SharedDates :
            Score(args.local.days[d]) = Score(args.remote.days[d])
                => MergedIs(d, args.local.days[d])

C3_Witness ==
    /\ Returned
    /\ \E d \in SharedDates :
          /\ Score(args.local.days[d]) = Score(args.remote.days[d])
          /\ Score(args.local.days[d]) > 0
          /\ args.local.days[d] # args.remote.days[d]

\* C4: on a date both documents have, the record with the strictly greater
\* completion score is kept, whichever side it is on.
C4_GreaterScoreWins ==
    Returned =>
        \A d \in SharedDates :
            LET l == args.local.days[d]
                r == args.remote.days[d]
            IN /\ Score(l) > Score(r) => MergedIs(d, l)
               /\ Score(r) > Score(l) => MergedIs(d, r)

C4_Witness ==
    /\ Returned
    /\ \E d \in SharedDates :
          /\ Score(args.remote.days[d]) > Score(args.local.days[d])
          /\ args.local.days[d].quranPages > 0

\* C5: the returned document has local's quranGoal and dhikrTarget, whichever
\* side wins a day.
C5_GoalsFromLocal ==
    Returned =>
        /\ result.ret.quranGoal = args.local.quranGoal
        /\ result.ret.dhikrTarget = args.local.dhikrTarget

C5_Witness ==
    /\ Returned
    /\ args.local.quranGoal # args.remote.quranGoal
    /\ args.local.dhikrTarget # args.remote.dhikrTarget
    /\ \E d \in SharedDates :
          /\ args.remote.days[d] # args.local.days[d]
          /\ MergedIs(d, args.remote.days[d])

\* C6: the call leaves both arguments as they were, and the days of the
\* document it returns are a new object.
C6_InputsUnchanged ==
    Called =>
        /\ local = args.local
        /\ remote = args.remote
        /\ result.daysObj = "new"

C6_Witness ==
    /\ Returned
    /\ RemoteDates # {}
    /\ \E d \in SharedDates : MergedIs(d, args.local.days[d]) /\ ~MergedIs(d, args.remote.days[d])
    /\ LocalDates \ RemoteDates # {}

\* The score the claim C7 gives a record without a prayers map.
scoreOrZero(day) == IF ScoreRaises(day) THEN 0 ELSE Score(day)

\* C7: when a date both documents have lacks its prayers map on one side, that
\* side scores zero there and the call still returns a merged document.
C7_MalformedScoresZero ==
    Called =>
        \A d \in SharedDates :
            LET l == args.local.days[d]
                r == args.remote.days[d]
            IN (ScoreRaises(l) # ScoreRaises(r)) =>
                  /\ ~result.raised
                  /\ MergedIs(d, IF scoreOrZero(l) >= scoreOrZero(r) THEN l ELSE r)

----------------------------------------------------------------------------
\* Spec: the sync orchestrator (App.tsx)

Today     == "2024-03-02"
Yesterday == "2024-03-01"

\* The signed-in account
TheUser == "u1"

\* Documents an earlier run of the app can have left on this device ...
LocalStarts ==
    {DefaultData,
     togglePrayer(DefaultData, Yesterday, "fajr", "fard"),
     changePages(DefaultData, Today, 1)}

\* ... and rows an earlier push, of this or of another device, or another
\* writer of the table can have left in the cloud.
CloudStarts ==
    LET prayed == togglePrayer(DefaultData, Yesterday, "fajr", "fard")
        adhkar == setAdhkar(setQuranGoal(DefaultData, Yesterday, MaxGoal),
                            Yesterday, "morningAdhkar", TRUE)
    IN {NoRow,
        [present |-> TRUE, payload |-> prayed],
        [present |-> TRUE, payload |-> adhkar],
        [present |-> TRUE, payload |-> togglePrayer(prayed, Today, "fajr", "fard")],
        [present |-> TRUE, payload |-> [adhkar EXCEPT !.days[Yesterday] = NoPrayers(@)]]}

\* The edits of today's record a run makes
UserEdits(data) ==
    {togglePrayer(data, Today, "fajr", "fard"),
     changePages(data, Today, 1),
     setQuranGoal(data, Today, MaxGoal)}

Init ==
    /\ MInit
    /\ user = NoUser
    /\ appData \in LocalStarts
    /\ storage = appData
    /\ cloud \in CloudStarts
    /\ syncStatus = "idle"
    /\ syncTimeout = NoTimer
    /\ login = NoLogin
    /\ pushes = {}
    /\ signingOut = FALSE
    /\ configured \in BOOLEAN
    /\ steps = 0
    /\ profile = DEFAULT_PROFILE
    /\ profileStorage = DEFAULT_PROFILE
    /\ cloudProfile = NoProfileRow
    /\ boot = pageLoad(0, saveData(appData))

\* As loadData, when the document under STORAGE_KEY is not read back.
loadDataDefault == DefaultData

\* loadData(): the document under STORAGE_KEY
loadData == storage

\* As clearTimeout, for a ref that does not name the pending timer.
clearNothing(timer) ==
    timer.strays \cup (IF timer.pending THEN {timer.data} ELSE {})

\* if (syncTimeoutRef.current) clearTimeout(syncTimeoutRef.current), in the
\* effect's cleanup and at its start: the timers still pending afterwards.
clearTimeout(timer) == timer.strays

\* As debounceEffect, for an effect that does not run again when appData
\* changes (dependencies [user]): a pending timer keeps its closure.
debounceEffectStale(timer, u, data) ==
    IF u = NoUser THEN [NoTimer EXCEPT !.strays = clearTimeout(timer)]
    ELSE IF timer.pending THEN [timer EXCEPT !.burst = @ + 1]
    ELSE [pending |-> TRUE, data |-> data, strays |-> clearTimeout(timer), burst |-> 1]

\* The debounce effect, run for the values `u` and `data` of user and appData
\* when `timer` is what the last run left: its cleanup has cleared the
\* previous timer; if (!user) return; otherwise it clears again and sets a
\* timer whose closure holds this render's appData.
debounceEffect(timer, u, data) ==
    IF u = NoUser THEN [NoTimer EXCEPT !.strays = clearTimeout(timer)]
    ELSE [pending |-> TRUE, data |-> data, strays |-> clearTimeout(timer),
          burst |-> IF timer.pending THEN timer.burst + 1 ELSE 1]

\* The closures of all timers pending
PendingTimers(timer) ==
    timer.strays \cup (IF timer.pending THEN {timer.data} ELSE {})

\* As loginAwaits, with the push started before the pulls have returned.
loginAwaitsPushFirst == <<"push", "pullData", "pullProfile">>

\* The awaits of the session effect's async function, in program order.
loginAwaits == <<"pullData", "pullProfile", "push">>

\* The await that follows `pc`, "none" after the last
nextAwait(pc) ==
    LET i == CHOOSE k \in 1..Len(loginAwaits) : loginAwaits[k] = pc
    IN IF i = Len(loginAwaits) THEN "none" ELSE loginAwaits[i + 1]

\* The async function reaches the await `pc`: reaching the push evaluates
\* pushToCloud(appData, user.id) with the appData of the effect's closure.
reachAwait(task, pc) ==
    IF pc = "none" THEN NoLogin
    ELSE [task EXCEPT !.pc = pc,
                      !.payload = IF pc = "push" THEN task.data ELSE @]

\* As persistEffect, for an effect that does not run when appData changes.
persistEffectSkipped(data) == storage

\* The persist effect, run for the value `data` of appData: saveData(appData)
\* leaves `data` under STORAGE_KEY.
persistEffect(data) == data

\* setAppData from an event handler: the component renders again, the persist
\* effect saves the document and the debounce effect sets its timer anew.
Mutate(data) ==
    /\ appData' = data
    /\ storage' = persistEffect(data)
    /\ syncTimeout' = debounceEffect(syncTimeout, user, data)

\* As authListener, for an effect that subscribes without a client.
authListenerAlways(conf) == TRUE

\* The auth listener effect: if (!supabase) return; without a client no
\* session is ever delivered and the user stays null.
authListener(conf) == conf

\* The outcomes of a request of pushToCloud, pullFromCloud or pullProfile:
\* if (!supabase) return false / null; otherwise the request succeeds or fails.
requestOutcomes(conf) == IF conf THEN BOOLEAN ELSE {FALSE}

\* As pushSettled, for a closure that sets a timer to push again when the
\* push failed.
pushSettledRetry(timer, ok, data) ==
    IF ok THEN timer ELSE [timer EXCEPT !.strays = @ \cup {data}]

\* The timers after pushToCloud has returned `ok` for `data`: the caller sets
\* the status and nothing else, no timer is set.
pushSettled(timer, ok, data) == timer

\* One of the edit handlers of the Today tab
UserEdit ==
    /\ steps < MaxSteps
    /\ \E data \in UserEdits(appData) : Mutate(data)
    /\ steps' = steps + 1
    /\ UNCHANGED <<user, cloud, syncStatus, login, pushes, signingOut>>
    /\ UNCHANGED <<mvars, configured, pvars>>

\* onAuthStateChange delivers a session: setUser(session.user). The session
\* effect starts its async function (setSyncStatus("syncing"), then the first
\* await) and the debounce effect sets its timer.
SessionEstablished ==
    /\ steps < MaxSteps
    /\ authListener(configured)
    /\ user = NoUser /\ ~signingOut
    /\ login.pc \in {"none", "rejected"}
    /\ user' = TheUser
    /\ syncStatus' = "syncing"
    /\ login' = reachAwait([NoLogin EXCEPT !.data = appData, !.stored = storage],
                           loginAwaits[1])
    /\ syncTimeout' = debounceEffect(syncTimeout, TheUser, appData)
    /\ steps' = steps + 1
    /\ UNCHANGED <<appData, storage, cloud, pushes, signingOut>>
    /\ UNCHANGED <<mvars, configured, pvars>>

\* pullFromCloud returns: the row's payload, or null when there is no row or
\* the request failed. if (remote) { merge, setAppData, saveData }.
\* mergeAppData raising rejects the async function's promise: nothing after
\* it runs.
LoginPullReturns ==
    /\ login.pc = "pullData"
    /\ \E ok \in requestOutcomes(configured) :
          LET remoteDoc == cloud.payload
              got       == ok /\ cloud.present
          IN IF ~got
             THEN /\ login' = reachAwait([login EXCEPT !.pulled = TRUE, !.pullFailed = ~ok],
                                         nextAwait("pullData"))
                  /\ UNCHANGED <<appData, storage, syncTimeout>>
             ELSE IF mergeRaises(loadData, remoteDoc)
             THEN /\ login' = [NoLogin EXCEPT !.pc = "rejected", !.pulled = TRUE,
                                              !.gotRemote = TRUE]
                  /\ UNCHANGED <<appData, storage, syncTimeout>>
             ELSE LET merged == mergeAppData(loadData, remoteDoc)
                  IN /\ appData' = merged
                     /\ storage' = merged
                     /\ syncTimeout' = debounceEffect(syncTimeout, user, merged)
                     /\ login' = reachAwait([login EXCEPT !.pulled = TRUE,
                                                          !.gotRemote = TRUE,
                                                          !.merged = merged,
                                                          !.saved = TRUE],
                                            nextAwait("pullData"))
    /\ UNCHANGED <<user, cloud, syncStatus, pushes, signingOut, steps>>
    /\ UNCHANGED <<mvars, configured, pvars>>

\* As withRemoteProfile, with the remote fields spread over the local profile.
withRemoteProfileOverLocal(localProfile, remoteProfile) ==
    Spread(localProfile, remoteProfile)

\* { ...DEFAULT_PROFILE, ...remoteProfile }
withRemoteProfile(localProfile, remoteProfile) ==
    Spread(DEFAULT_PROFILE, remoteProfile)

\* pullProfile returns: the row's profile, or null when there is no row or the
\* request failed. if (remoteProfile) { setProfile, saveProfile }.
LoginProfileReturns ==
    /\ login.pc = "pullProfile"
    /\ \E ok \in requestOutcomes(configured) :
          IF ok /\ cloudProfile.present
          THEN /\ profile' = withRemoteProfile(profile, cloudProfile.profile)
               /\ profileStorage' = withRemoteProfile(profile, cloudProfile.profile)
          ELSE UNCHANGED <<profile, profileStorage>>
    /\ login' = reachAwait(login, nextAwait("pullProfile"))
    /\ UNCHANGED <<user, appData, storage, cloud, syncStatus, syncTimeout, pushes,
                   signingOut, steps>>
    /\ UNCHANGED <<mvars, configured, cloudProfile, boot>>

\* The upsert of pushToCloud: a success replaces the row's payload.
upsert(row, ok, data) == IF ok THEN [present |-> TRUE, payload |-> data] ELSE row

\* pushToCloud returns to the session effect: setSyncStatus(pushed ? "synced" : "error")
LoginPushReturns ==
    /\ login.pc = "push"
    /\ \E ok \in requestOutcomes(configured) :
          /\ cloud' = upsert(cloud, ok, login.payload)
          /\ syncStatus' = IF nextAwait("push") = "none"
                           THEN (IF ok THEN "synced" ELSE "error") ELSE syncStatus
          /\ syncTimeout' = pushSettled(syncTimeout, ok, login.payload)
    /\ login' = reachAwait(login, nextAwait("push"))
    /\ UNCHANGED <<user, appData, storage, pushes, signingOut, steps>>
    /\ UNCHANGED <<mvars, configured, pvars>>

\* The debounce timer fires: setSyncStatus("syncing"); pushToCloud(appData, user.id)
DebounceFires ==
    /\ Cardinality(pushes) < MaxPushes
    /\ \E data \in PendingTimers(syncTimeout) :
          /\ pushes' = pushes \cup {[src |-> "debounce", data |-> data]}
          /\ syncTimeout' =
                IF syncTimeout.pending /\ data = syncTimeout.data
                THEN [NoTimer EXCEPT !.strays = syncTimeout.strays]
                ELSE [syncTimeout EXCEPT !.strays = @ \ {data}]
    /\ syncStatus' = "syncing"
    /\ UNCHANGED <<user, appData, storage, cloud, login, signingOut, steps>>
    /\ UNCHANGED <<mvars, configured, pvars>>

\* "Sync now": setSyncStatus("syncing"); pushToCloud(appData, user.id)
SyncNow ==
    /\ steps < MaxSteps
    /\ user # NoUser
    /\ Cardinality(pushes) < MaxPushes
    /\ syncStatus' = "syncing"
    /\ pushes' = pushes \cup {[src |-> "manual", data |-> appData]}
    /\ steps' = steps + 1
    /\ UNCHANGED <<user, appData, storage, cloud, syncTimeout, login, signingOut>>
    /\ UNCHANGED <<mvars, configured, pvars>>

\* pushToCloud returns to the timer's closure or to the click handler:
\* setSyncStatus(ok ? "synced" : "error")
PushReturns ==
    /\ \E p \in pushes : \E ok \in requestOutcomes(configured) :
          /\ cloud' = upsert(cloud, ok, p.data)
          /\ syncStatus' = IF ok THEN "synced" ELSE "error"
          /\ syncTimeout' = pushSettled(syncTimeout, ok, p.data)
          /\ pushes' = pushes \ {p}
    /\ UNCHANGED <<user, appData, storage, login, signingOut, steps>>
    /\ UNCHANGED <<mvars, configured, pvars>>

\* "Sign out": handleSignOut calls signOut() and awaits it.
SignOutClicked ==
    /\ steps < MaxSteps
    /\ user # NoUser /\ ~signingOut
    /\ signingOut' = TRUE
    /\ steps' = steps + 1
    /\ UNCHANGED <<user, appData, storage, cloud, syncStatus, syncTimeout, login, pushes>>
    /\ UNCHANGED <<mvars, configured, pvars>>

\* signOut() returns: the auth listener has set the user to null (the cleanup
\* of the debounce effect clears the timer), then setSyncStatus("idle").
SignOutReturns ==
    /\ signingOut
    /\ user' = NoUser
    /\ syncTimeout' = debounceEffect(syncTimeout, NoUser, appData)
    /\ syncStatus' = "idle"
    /\ signingOut' = FALSE
    /\ UNCHANGED <<appData, storage, cloud, login, pushes, steps>>
    /\ UNCHANGED <<mvars, configured, pvars>>

Next ==
    \/ UserEdit
    \/ SessionEstablished
    \/ LoginPullReturns
    \/ LoginProfileReturns
    \/ LoginPushReturns
    \/ DebounceFires
    \/ SyncNow
    \/ PushReturns
    \/ SignOutClicked
    \/ SignOutReturns

Spec == Init /\ [][Next]_vars

----------------------------------------------------------------------------
\* The app with its Profile tab, under SpecApp: the user edits the day and the
\* profile, signs in and deletes all data ("Sync now" and sign-out are
\* explored under Spec).

\* What the fields of the Profile tab hand to patch(updates): a text, and
\* Math.max(1, parseInt(tempVal) || 1) for the goals
ProfileUpdates ==
    {[displayName |-> "Aisha"],
     [quranGoal |-> Max(1, MaxGoal), dhikrTarget |-> Max(1, MaxGoal)]}

\* patch(updates) of the Profile tab: handleProfileChange({...profile, ...updates})
\* sets and saves the profile and, when its goals differ from appData's,
\* copies them into appData.
ProfileEdit ==
    /\ steps < MaxSteps
    /\ \E updates \in ProfileUpdates :
          LET p == Spread(profile, updates)
          IN /\ profile' = p
             /\ profileStorage' = p
             /\ IF p.quranGoal # appData.quranGoal \/ p.dhikrTarget # appData.dhikrTarget
                THEN Mutate([appData EXCEPT !.quranGoal = p.quranGoal,
                                            !.dhikrTarget = p.dhikrTarget])
                ELSE UNCHANGED <<appData, storage, syncTimeout>>
    /\ steps' = steps + 1
    /\ UNCHANGED <<user, cloud, syncStatus, login, pushes, signingOut, cloudProfile, boot>>
    /\ UNCHANGED <<mvars, configured>>

\* As sessionAfterClear, for a session that is not kept in localStorage.
sessionKept(u) == u

\* The session getSession() finds after localStorage.clear(): persistSession
\* keeps the session in localStorage, so none.
sessionAfterClear(u) == NoUser

\* "Yes, delete everything": localStorage.clear(); window.location.reload().
\* The page and all it had scheduled or was awaiting are gone; the app mounts
\* again, loads the default document and profile, and its effects run.
DeleteAllData ==
    /\ steps < MaxSteps
    /\ LET load == pageLoad(boot.count + 1, NoItem)
           u    == sessionAfterClear(user)
       IN /\ boot' = load
          /\ appData' = load.loaded.ret
          /\ storage' = persistEffect(load.loaded.ret)
          /\ profile' = DEFAULT_PROFILE
          /\ profileStorage' = DEFAULT_PROFILE
          /\ user' = u
          /\ syncTimeout' = debounceEffect(NoTimer, u, load.loaded.ret)
          /\ IF u = NoUser
             THEN /\ login' = NoLogin
                  /\ syncStatus' = "idle"
             ELSE /\ login' = reachAwait([NoLogin EXCEPT
                                            !.data = load.loaded.ret,
                                            !.stored = load.loaded.ret],
                                         loginAwaits[1])
                  /\ syncStatus' = "syncing"
    /\ pushes' = {}
    /\ signingOut' = FALSE
    /\ steps' = steps + 1
    /\ UNCHANGED <<cloud, cloudProfile>>
    /\ UNCHANGED <<mvars, configured>>

\* What can be under STORAGE_KEY when the page loads (Delete All Data leaves
\* nothing there)
StoredItems ==
    {GarbageItem, saveData(togglePrayer(DefaultData, Yesterday, "fajr", "fard"))}

\* Rows of profiles another device or an older version of the app can have
\* left (a row need not have every field).
CloudProfileStarts ==
    {NoProfileRow,
     [present |-> TRUE, profile |-> [quranGoal |-> MaxGoal, dhikrTarget |-> DefaultDhikrTarget]]}

InitApp ==
    /\ MInit
    /\ user = NoUser
    /\ boot \in {pageLoad(0, item) : item \in StoredItems}
    /\ appData = boot.loaded.ret
    /\ storage = appData
    /\ cloud = [present |-> TRUE,
                payload |-> togglePrayer(DefaultData, Today, "fajr", "fard")]
    /\ syncStatus = "idle"
    /\ syncTimeout = NoTimer
    /\ login = NoLogin
    /\ pushes = {}
    /\ signingOut = FALSE
    /\ configured = TRUE
    /\ steps = 0
    /\ profile = DEFAULT_PROFILE
    /\ profileStorage = profile
    /\ cloudProfile \in CloudProfileStarts

NextApp ==
    \/ UserEdit
    \/ ProfileEdit
    \/ DeleteAllData
    \/ SessionEstablished
    \/ LoginPullReturns
    \/ LoginProfileReturns
    \/ LoginPushReturns
    \/ DebounceFires
    \/ PushReturns

SpecApp == InitApp /\ [][NextApp]_vars

----------------------------------------------------------------------------
\* Properties of the session cycle, under Spec

\* C9: when the pull of a session cycle returned a document, the document the
\* cycle hands to pushToCloud is the merged document it wrote to the Local
\* Store.
C9_CyclePushesMerged ==
    (login.pc = "push" /\ login.gotRemote) => login.payload = login.merged

\* C10: a session cycle has its pull back, and the merged document saved when
\* the pull returned one, before it starts its push.
C10_PullAndMergeBeforePush ==
    login.pc = "push" =>
        /\ login.pulled
        /\ login.gotRemote => login.saved

C10_Witness ==
    /\ login.pc = "push"
    /\ login.pulled /\ login.gotRemote
    /\ login.merged # login.data

----------------------------------------------------------------------------
\* Properties of the debounced push, under Spec

\* C11: however many times in a row the debounce effect has run without a
\* timer firing in between (a burst of mutations, each within the debounce
\* interval of the one before), exactly one timer is pending, so that the
\* burst causes one push; and never more than one timer is pending.
C11_OneTimerPerBurst ==
    /\ Cardinality(PendingTimers(syncTimeout)) <= 1
    /\ syncTimeout.burst >= 1 => Cardinality(PendingTimers(syncTimeout)) = 1

C11_Witness ==
    /\ user # NoUser
    /\ syncTimeout.burst >= 2
    /\ PendingTimers(syncTimeout) = {appData}
    /\ appData # login.data

\* C12: a push issued by the debounce timer carries the appData of the moment
\* the timer fires.
C12_DebouncePushesCurrent ==
    [][\A p \in pushes' \ pushes : p.src = "debounce" => p.data = appData]_vars

C12_Witness ==
    /\ \E p \in pushes : p.src = "debounce" /\ p.data = appData
    /\ login.saved /\ appData = login.merged
    /\ login.merged # login.data

----------------------------------------------------------------------------
\* Properties of sign-out and of overlapping operations, under Spec

\* The requests of pullFromCloud, pullProfile and pushToCloud in flight
CycleInFlight == login.pc \in {loginAwaits[k] : k \in 1..Len(loginAwaits)}
InFlight == Cardinality(pushes) + (IF CycleInFlight THEN 1 ELSE 0)

\* C13: once the user is null no debounce timer is pending, and no step taken
\* while the user is null issues a push or a pull.
C13_NoRequestWhileSignedOut ==
    [][/\ user' = NoUser => PendingTimers(syncTimeout') = {}
       /\ (user = NoUser /\ user' = NoUser) =>
              /\ pushes' \subseteq pushes
              /\ login'.pc \in {login.pc, "none", "rejected"}]_vars

\* C14: while the user is null the status is idle.
C14_IdleWhileSignedOut == user = NoUser => syncStatus = "idle"

\* C15: at most one sync operation is in flight.
C15_OneInFlight == InFlight <= 1

\* C16: a session cycle whose pull failed ends with the status error.
C16_FailedPullShowsError ==
    [][(login.pc = "push" /\ login'.pc = "none" /\ login.pullFailed)
          => syncStatus' = "error"]_vars

----------------------------------------------------------------------------
\* Properties of failure handling, under Spec

\* A push has returned in this step, to the session cycle or to a timer's
\* closure or click handler
PushReturned ==
    \/ pushes' # pushes /\ pushes' \subseteq pushes
    \/ login.pc = "push" /\ login'.pc # "push"

\* A pending timer has fired in this step
TimerFired ==
    /\ PendingTimers(syncTimeout') # PendingTimers(syncTimeout)
    /\ PendingTimers(syncTimeout') \subseteq PendingTimers(syncTimeout)

\* The user has acted in this step, or the user has changed
Triggered == steps' # steps \/ user' # user

\* C17, as stated, for a user who has done nothing but sign in: once the
\* status is error and nothing is in flight, no push is issued and the status
\* stays error until the user acts.
C17_ErrorUntilTrigger ==
    [][(syncStatus = "error" /\ InFlight = 0 /\ steps = 1 /\ ~Triggered)
          => (pushes' = pushes /\ syncStatus' = "error")]_vars

\* C17, amended: a push that fails sets the status error, sets no timer and
\* issues no request; the status leaves error only when the user acts, a
\* timer already pending fires (the one set at session establishment
\* included) or an operation already in flight returns.
C17_NoRetryOnFailure ==
    [][/\ (PushReturned /\ syncStatus' = "error") =>
              /\ PendingTimers(syncTimeout') = PendingTimers(syncTimeout)
              /\ pushes' \subseteq pushes
              /\ login'.pc = "none" \/ login'.pc = login.pc
       /\ (syncStatus = "error" /\ syncStatus' # "error") =>
              Triggered \/ TimerFired \/ PushReturned]_vars

C17_Witness ==
    /\ user # NoUser
    /\ syncStatus = "error"
    /\ InFlight = 0
    /\ PendingTimers(syncTimeout) = {}
    /\ cloud.present => cloud.payload # appData

\* C18: without a configured remote the user stays null, nothing is in flight
\* or scheduled, the remote row is never written and the status is idle.
C18_UnconfiguredStaysIdle ==
    [][~configured =>
          /\ syncStatus = "idle" /\ syncStatus' = "idle"
          /\ user' = NoUser
          /\ InFlight' = 0
          /\ PendingTimers(syncTimeout') = {}
          /\ cloud' = cloud]_vars

C18_Witness ==
    /\ ~configured
    /\ steps >= 2
    /\ appData \notin LocalStarts
    /\ syncStatus = "idle"

\* The call with its arguments swapped, and the tied dates of the call
Swapped == mergeAppData(args.remote, args.local)
TiedDates ==
    {d \in SharedDates : Score(args.local.days[d]) = Score(args.remote.days[d])}

\* C24: for well-formed documents, when no shared date has equal scores the
\* call and the call with swapped arguments return the same days; on a shared
\* date with equal scores and different records each call returns the record
\* of its own first argument.
C24_CommutativeButForTies ==
    (Called /\ WellFormed(args.local) /\ WellFormed(args.remote)) =>
        /\ TiedDates = {} => result.ret.days = Swapped.days
        /\ \A d \in TiedDates :
              args.local.days[d] # args.remote.days[d] =>
                  /\ MergedIs(d, args.local.days[d])
                  /\ Swapped.days[d] = args.remote.days[d]
                  /\ Swapped.days[d] # result.ret.days[d]

C24_Witness ==
    /\ Called /\ WellFormed(args.local) /\ WellFormed(args.remote)
    /\ \E d \in TiedDates :
          /\ args.local.days[d] # args.remote.days[d]
          /\ PrayersDone(args.local.days[d]) # PrayersDone(args.remote.days[d])
          /\ Swapped.days[d] # result.ret.days[d]

\* C30: for well-formed documents, merging a document with itself returns
\* it, merging the result again with the same remote returns the result, and
\* every day of the result is the whole record of one of the arguments.
C30_Idempotent ==
    (Called /\ WellFormed(args.local) /\ WellFormed(args.remote)) =>
        /\ mergeAppData(args.local, args.local) = args.local
        /\ mergeAppData(args.remote, args.remote) = args.remote
        /\ mergeAppData(result.ret, args.remote) = result.ret
        /\ \A d \in DOMAIN result.ret.days :
              \/ d \in LocalDates /\ result.ret.days[d] = args.local.days[d]
              \/ d \in RemoteDates /\ result.ret.days[d] = args.remote.days[d]

C30_Witness ==
    /\ Called /\ WellFormed(args.local) /\ WellFormed(args.remote)
    /\ result.ret # args.local /\ result.ret # args.remote
    /\ \E d \in SharedDates :
          /\ MergedIs(d, args.remote.days[d])
          /\ args.remote.days[d].morningAdhkar # args.local.days[d].morningAdhkar
    /\ mergeAppData(result.ret, args.remote) = result.ret

----------------------------------------------------------------------------
\* Properties of the local copy, under Spec

\* C19: a debounced or manual push carries the document that is under
\* STORAGE_KEY when it is issued, and the push of a session cycle carries the
\* document that was under STORAGE_KEY when the cycle began.
C19_PushedWasStored ==
    [][/\ \A p \in pushes' \ pushes : p.data = storage
       /\ (login'.pc = "push" /\ login.pc # "push") => login'.payload = login'.stored]_vars

C19_Witness ==
    /\ login.pc = "push"
    /\ login.payload = login.stored
    /\ login.payload # storage
    /\ \E p \in pushes : p.data = storage

\* C20: a step of a sync operation (a step that is not the user's) leaves
\* appData and the document under STORAGE_KEY as they were, unless it is the
\* return of a session cycle's pull with a document, which may set both to
\* the merge of the stored document with the pulled one.
C20_SyncLeavesLocalIntact ==
    [][steps' = steps =>
          \/ UNCHANGED <<appData, storage>>
          \/ /\ login.pc = "pullData" /\ cloud.present
             /\ appData' = mergeAppData(storage, cloud.payload)
             /\ storage' = appData']_vars

C20_Witness ==
    /\ login.pc = "none" /\ user # NoUser
    /\ syncStatus = "error"
    /\ cloud.present
    /\ appData = mergeAppData(appData, cloud.payload)
    /\ appData \notin LocalStarts /\ appData # cloud.payload
    /\ storage = appData
    /\ steps = 1

----------------------------------------------------------------------------
\* Properties of the remote copy and of the status, under Spec

\* C26: when a user is signed in, the status is synced, no request is in
\* flight and no timer is pending, the account's row holds appData.
C26_SyncedMeansEqual ==
    (user # NoUser /\ ~signingOut /\ syncStatus = "synced" /\ InFlight = 0
        /\ PendingTimers(syncTimeout) = {})
      => (cloud.present /\ cloud.payload = appData)

\* In the first session of a run no push has returned yet: the account's row
\* is as it was when the session was established. (Any push that returns
\* sets the status, and only a timer that fires, whose push is then in
\* flight, sets it back to syncing.)
RowAsAtSignIn ==
    /\ steps = 1 /\ boot.count = 0
    /\ user # NoUser
    /\ syncStatus = "syncing" /\ pushes = {}

\* C27: the push of a session cycle, when it is the first push to return
\* since the session was established, leaves in the account's row every date
\* the row had.
C27_CycleKeepsRemoteDates ==
    [][(RowAsAtSignIn /\ login.pc = "push" /\ login'.pc = "none")
          => DOMAIN cloud.payload.days \subseteq DOMAIN cloud'.payload.days]_vars

\* C28: while a request is in flight the status is syncing.
C28_SyncingWhileInFlight == InFlight > 0 => syncStatus = "syncing"

----------------------------------------------------------------------------
\* A session in which every request succeeds and the user, once signed in,
\* does nothing more: timers fire and requests return, in any order.

\* An edit made before signing in
EditBeforeSession == UserEdit /\ user = NoUser

\* pullFromCloud returns without a failure: the row's payload, or null when
\* the account has no row
PullSucceeds == LoginPullReturns /\ ~login'.pullFailed

\* pushToCloud returns true to the session effect
CyclePushSucceeds == LoginPushReturns /\ syncStatus' = "synced"

\* pushToCloud returns true to the timer's closure
PushSucceeds == PushReturns /\ syncStatus' = "synced"

NextCalm ==
    \/ EditBeforeSession
    \/ SessionEstablished
    \/ PullSucceeds
    \/ LoginProfileReturns
    \/ CyclePushSucceeds
    \/ DebounceFires
    \/ PushSucceeds

\* A timer that is set fires, and a request that was issued returns.
FairCalm ==
    /\ WF_vars(PullSucceeds)
    /\ WF_vars(LoginProfileReturns)
    /\ WF_vars(CyclePushSucceeds)
    /\ WF_vars(DebounceFires)
    /\ WF_vars(PushSucceeds)

SpecCalm == Init /\ [][NextCalm]_vars /\ FairCalm

\* Nothing is in flight or scheduled, the status is synced, and the account's
\* row, appData and the document under STORAGE_KEY are the same document
Settled ==
    /\ syncStatus = "synced"
    /\ InFlight = 0 /\ login.pc = "none"
    /\ PendingTimers(syncTimeout) = {}
    /\ cloud.present /\ cloud.payload = appData
    /\ storage = appData

\* C29: a session established while the account's row holds a well-formed
\* document leads to a state where nothing is in flight or scheduled, the
\* status is synced and the row holds the merged document that is in memory
\* and in the Local Store.
C29_EventuallySettled ==
    (login.pc = "pullData" /\ cloud.present /\ WellFormed(cloud.payload)) ~> Settled

----------------------------------------------------------------------------
\* Properties of the profile and of the page load, under SpecApp

\* C21: the profile's goals are those of appData.
C21_GoalsConsistent ==
    /\ profile.quranGoal = appData.quranGoal
    /\ profile.dhikrTarget = appData.dhikrTarget

\* C22: the step of Delete All Data leaves the account's rows as they were,
\* leaves nothing in flight or scheduled, and leaves the default document and
\* profile in memory and in the Local Store.
C22_WipeStaysLocal ==
    [][boot'.count # boot.count =>
          /\ cloud' = cloud /\ cloudProfile' = cloudProfile
          /\ pushes' = {} /\ login'.pc = "none"
          /\ PendingTimers(syncTimeout') = {}
          /\ appData'.days = NoDays /\ storage' = appData'
          /\ profile' = DEFAULT_PROFILE /\ profileStorage' = DEFAULT_PROFILE]_vars

C22_Witness ==
    /\ boot.count = 1
    /\ cloud.present /\ cloud.payload.days # NoDays
    /\ cloud.payload # appData
    /\ appData.days = NoDays
    /\ user = NoUser /\ InFlight = 0

\* C23: what loadData returned at the page load is the default document when
\* nothing was under STORAGE_KEY or what was there is not JSON, and the
\* document saveData wrote otherwise; it did not raise.
C23_LoadDefaultsOrSaved ==
    /\ ~boot.loaded.raised
    /\ boot.item.kind \in {"null", "garbage"} =>
          boot.loaded.ret = [days |-> NoDays, quranGoal |-> 1, dhikrTarget |-> 33]
    /\ boot.item.kind = "json" => boot.item = saveData(boot.loaded.ret)

C23_Witness ==
    /\ boot.item.kind = "garbage"
    /\ boot.loaded.ret = DefaultData
    /\ steps >= 1 /\ appData # DefaultData

\* The remote profile with the defaults for the fields it lacks
WithDefaults(remoteProfile) ==
    [f \in DOMAIN DEFAULT_PROFILE |->
        IF f \in DOMAIN remoteProfile THEN remoteProfile[f] ELSE DEFAULT_PROFILE[f]]

\* C25: when the profile pull of a session cycle returns, the profile in
\* memory and the saved one are either both the remote profile with defaults
\* for the fields it lacks, or (no row, or the request failed) both as they
\* were; appData and the document under STORAGE_KEY are as they were.
C25_ProfileOverwrite ==
    [][(login.pc = "pullProfile" /\ login'.pc # "pullProfile" /\ boot' = boot) =>
          /\ \/ /\ cloudProfile.present
                /\ profile' = WithDefaults(cloudProfile.profile)
                /\ profileStorage' = profile'
             \/ UNCHANGED <<profile, profileStorage>>
          /\ ~cloudProfile.present => UNCHANGED <<profile, profileStorage>>
          /\ UNCHANGED <<appData, storage>>]_vars

C25_Witness ==
    /\ login.pc = "push" /\ login.saved
    /\ cloudProfile.present
    /\ profile = WithDefaults(cloudProfile.profile)
    /\ profile.displayName = "" /\ profileStorage = profile
    /\ profile.quranGoal # appData.quranGoal
    /\ appData = login.merged

====
